---------------------------- MODULE Spec2Model ----------------------------
(***************************************************************************)
(* Model of the greedy battery dispatch of sun-sim (src/dispatch.py).      *)
(*                                                                         *)
(* Python floats are modelled as exact rationals <<num, den>> in lowest    *)
(* terms with den > 0, so that every comparison and every division of the  *)
(* source is computed as the source computes it, without rounding.         *)
(* A pandas Series is a record [index, values] of two sequences of equal   *)
(* length; timestamps of an index are integers.                            *)
(***************************************************************************)
EXTENDS Integers, Sequences, FiniteSets

(* ------------------------------ bounds --------------------------------- *)
\* longest generation / price series explored, besides the 24-hour day of
\* the tests
MaxLen == 3
\* longest series explored with an index that differs from the other one
MaxMisLen == 2

(* --------------------------- exact arithmetic -------------------------- *)
Abs(n) == IF n < 0 THEN -n ELSE n

RECURSIVE GCD(_, _)
GCD(a, b) == IF b = 0 THEN a ELSE GCD(b, a % b)

\* the rational n/d (d # 0) in lowest terms with a positive denominator
Norm(n, d) ==
    LET g == GCD(Abs(n), Abs(d))
        s == IF d < 0 THEN -1 ELSE 1
    IN  <<(s * n) \div g, (s * d) \div g>>

R(n) == <<n, 1>>
Zero == R(0)

RAdd(x, y) == Norm(x[1] * y[2] + y[1] * x[2], x[2] * y[2])
RSub(x, y) == Norm(x[1] * y[2] - y[1] * x[2], x[2] * y[2])
RMul(x, y) == Norm(x[1] * y[1], x[2] * y[2])
\* x / y for y # 0
RDiv(x, y) == Norm(x[1] * y[2], x[2] * y[1])
RLt(x, y) == x[1] * y[2] < y[1] * x[2]
RLe(x, y) == x[1] * y[2] <= y[1] * x[2]
RMin(x, y) == IF RLe(x, y) THEN x ELSE y
RMax(x, y) == IF RLe(x, y) THEN y ELSE x
RAbs(x) == <<Abs(x[1]), x[2]>>

RECURSIVE RSum(_)
RSum(s) == IF s = <<>> THEN Zero ELSE RAdd(Head(s), RSum(Tail(s)))

\* elementwise product of two aligned value sequences
Times(a, b) == [k \in 1..Len(a) |-> RMul(a[k], b[k])]

(* ------------------------------ BatteryCfg ----------------------------- *)
\* the dataclass: three fields, no validation of any of them
BatteryCfg(capacity_kwh, power_kw, round_trip_eff) ==
    [capacity_kwh |-> capacity_kwh, power_kw |-> power_kw,
     round_trip_eff |-> round_trip_eff]

\* BatteryCfg(): the field defaults 5.0, 3.0, 0.92
DefaultCfg == BatteryCfg(R(5), R(3), <<23, 25>>)

\* the configurations the data model of the specification allows
ValidCfg(c) ==
    /\ RLt(Zero, c.capacity_kwh)
    /\ RLt(Zero, c.power_kw)
    /\ RLt(Zero, c.round_trip_eff) /\ RLe(c.round_trip_eff, R(1))

(* ------------------------------ the inputs ----------------------------- *)
Generation == {R(0), R(1), R(2)}
Prices == {R(1), R(2), R(3)}
Capacities == {R(1), R(2)}
Powers == {R(1), R(2)}
Effs == {<<1, 2>>, R(1)}

\* BatteryCfg() and BatteryCfg(capacity_kwh=2.0), the configurations of the
\* tests
TestArgs ==
    {<<DefaultCfg.capacity_kwh, DefaultCfg.power_kw, DefaultCfg.round_trip_eff>>,
     <<R(2), DefaultCfg.power_kw, DefaultCfg.round_trip_eff>>}

\* constructor arguments tried on the short series: every combination of the
\* valid values above, the defaults, and arguments outside the documented
\* ranges
CfgArgs ==
    {<<c, p, e>> : c \in Capacities, p \in Powers, e \in Effs}
        \cup {<<DefaultCfg.capacity_kwh, DefaultCfg.power_kw,
                DefaultCfg.round_trip_eff>>}
        \cup {<<R(0), R(2), R(1)>>, <<R(2), R(0 - 1), <<1, 2>>>>,
              <<R(2), R(2), <<3, 2>>>>}

Series(index, values) == [index |-> index, values |-> values]

\* the hourly timestamps 1..n
HourIndex(n) == [k \in 1..n |-> k]

\* indices that differ from HourIndex(n): the last timestamp changed, two
\* timestamps in the other order, the last timestamp missing
OtherIndices(n) ==
    {[HourIndex(n) EXCEPT ![n] = n + 1], HourIndex(n - 1)}
        \cup (IF n > 1 THEN {[HourIndex(n) EXCEPT ![1] = n, ![n] = 1]} ELSE {})

SeqsOfLen(S, n) == [1..n -> S]


(* ------------------------- greedy_dispatch: pieces --------------------- *)
\* variant: an alignment test that compares the lengths only
IndexEquals_LengthOnly(a, b) == Len(a) = Len(b)

\* pandas Index.equals: same length, same timestamps, same order
IndexEquals(a, b) ==
    /\ Len(a) = Len(b)
    /\ \A k \in 1..Len(a) : a[k] = b[k]

\* the k-th smallest entry of a non-empty sequence of rationals
Kth(s, k) ==
    CHOOSE v \in {s[i] : i \in 1..Len(s)} :
        /\ Cardinality({i \in 1..Len(s) : RLt(s[i], v)}) < k
        /\ k <= Cardinality({i \in 1..Len(s) : RLe(s[i], v)})

\* Series.median(): the middle entry, or the mean of the two middle entries
Median(s) ==
    LET n == Len(s)
    IN  IF n % 2 = 1
        THEN Kth(s, (n + 1) \div 2)
        ELSE RDiv(RAdd(Kth(s, n \div 2), Kth(s, n \div 2 + 1)), R(2))

\* discharge_threshold = median_price / cfg.round_trip_eff
Threshold(values, c) == RDiv(Median(values), c.round_trip_eff)

\* variant: a charge step without the power limit
Charge_NoPowerLimit(pv_kwh, s, c) == RMin(pv_kwh, RSub(c.capacity_kwh, s))

\* charge = min(pv_kwh, cfg.power_kw, cfg.capacity_kwh - soc)
Charge(pv_kwh, s, c) ==
    RMin(RMin(pv_kwh, c.power_kw), RSub(c.capacity_kwh, s))

\* variant: discharging already at the threshold price
ShouldDischarge_AtThreshold(p, thr, s) == RLe(thr, p) /\ RLt(Zero, s)

\* if p > discharge_threshold and soc > 0
ShouldDischarge(p, thr, s) == RLt(thr, p) /\ RLt(Zero, s)

\* discharge = min(cfg.power_kw, soc), or 0.0 when the test fails
Discharge(p, thr, s, c) ==
    IF ShouldDischarge(p, thr, s) THEN RMin(c.power_kw, s) ELSE Zero

\* soc -= discharge / cfg.round_trip_eff, inside the same test
Withdraw(p, thr, s, c) ==
    IF ShouldDischarge(p, thr, s)
    THEN RSub(s, RDiv(Discharge(p, thr, s, c), c.round_trip_eff))
    ELSE s

\* variant: a clamp without the lower bound
Clamp_UpperOnly(s, c) == RMin(s, c.capacity_kwh)

\* soc = min(max(soc, 0.0), cfg.capacity_kwh)
Clamp(s, c) == RMin(RMax(s, Zero), c.capacity_kwh)

\* batt_flow entry: charge - discharge
BattFlow(charge, discharge) == RSub(charge, discharge)

\* variant: the discharge taken from the export instead of added to it
GridExport_Minus(pv_surplus, discharge) == RSub(pv_surplus, discharge)

\* grid_export entry: pv_surplus + discharge
GridExport(pv_surplus, discharge) == RAdd(pv_surplus, discharge)

\* one iteration of the loop from state of charge s
Step(s, pv_kwh, p, c, thr) ==
    LET charge     == Charge(pv_kwh, s, c)
        charged    == RAdd(s, charge)
        pv_surplus == RSub(pv_kwh, charge)
        discharge  == Discharge(p, thr, charged, c)
        withdrawn  == Withdraw(p, thr, charged, c)
    IN  [charge      |-> charge,
         discharge   |-> discharge,
         soc         |-> Clamp(withdrawn, c),
         batt_flow   |-> BattFlow(charge, discharge),
         grid_export |-> GridExport(pv_surplus, discharge)]

\* Series.clip(lower=0)
Clip(values) == [k \in 1..Len(values) |-> RMax(values[k], Zero)]

\* variant: the raw saving, not floored
PoundsSaved_Raw(raw_saved) == raw_saved

\* pounds_saved = max(raw_saved, 0.0)
PoundsSaved(raw_saved) == RMax(raw_saved, Zero)

\* the three figures of the returned dict, from the export column
Summary(pvs, prices, exports) ==
    LET cost_naive == RSum(Times(pvs, prices))
        cost_smart == RSum(Times(Clip(exports), prices))
    IN  [cost_naive   |-> cost_naive,
         cost_smart   |-> cost_smart,
         pounds_saved |-> PoundsSaved(RSub(cost_naive, cost_smart))]

(* -------------------------------- state -------------------------------- *)
VARIABLES
    pv,                  \* generation Series
    price,               \* price Series
    cfg,                 \* the BatteryCfg, once constructed
    pc,                  \* position: "new", "call", "loop", "done", "ValueError"
    discharge_threshold,
    soc,
    soc_trace,
    batt_flow,
    grid_export,
    charge_trace,        \* the loop's local charge, per interval
    discharge_trace,     \* the loop's local discharge, per interval
    result               \* <<>>, or <<the returned figures>>

vars == <<pv, price, cfg, pc, discharge_threshold, soc, soc_trace, batt_flow,
          grid_export, charge_trace, discharge_trace, result>>

\* mock_price_series over 24 hours: 0.12 overnight, 0.30 from 16 to 19,
\* 0.15 otherwise
MockPrice(hour) ==
    IF hour >= 16 /\ hour < 20 THEN <<3, 10>>
    ELSE IF hour >= 0 /\ hour < 6 THEN <<3, 25>>
    ELSE <<3, 20>>

\* the 24-hour days of the tests: constant generation 0.5 (test_soc_bounds)
\* and the ramp linspace(0, 0.8, 24) (test_dispatch_saves_money), both at
\* the mock prices
DayLen == 24
ConstantSun == Series(HourIndex(DayLen), [k \in 1..DayLen |-> <<1, 2>>])
Ramp == Series(HourIndex(DayLen), [k \in 1..DayLen |-> Norm(4 * (k - 1), 115)])
MockDay == Series(HourIndex(DayLen), [k \in 1..DayLen |-> MockPrice(k - 1)])

Init ==
    /\ \/ \E n \in 1..MaxLen :
            /\ pv \in {Series(HourIndex(n), v) : v \in SeqsOfLen(Generation, n)}
            /\ \E v \in SeqsOfLen(Prices, n) :
                  price \in {Series(HourIndex(n), v)}
                      \cup {Series(ix, SubSeq(v, 1, Len(ix))) :
                                ix \in (IF n <= MaxMisLen THEN OtherIndices(n)
                                        ELSE {})}
       \/ pv \in {ConstantSun, Ramp} /\ price = MockDay
    /\ cfg = <<>>
    /\ pc = "new"
    /\ discharge_threshold = <<>>
    /\ soc = Zero
    /\ soc_trace = <<>>
    /\ batt_flow = <<>>
    /\ grid_export = <<>>
    /\ charge_trace = <<>>
    /\ discharge_trace = <<>>
    /\ result = <<>>

\* BatteryCfg(...): the generated __init__ stores its arguments
Construct ==
    /\ pc = "new"
    /\ \E a \in (IF Len(pv.values) = DayLen THEN TestArgs ELSE CfgArgs) :
          cfg' = BatteryCfg(a[1], a[2], a[3])
    /\ pc' = "call"
    /\ UNCHANGED <<pv, price, discharge_threshold, soc, soc_trace, batt_flow,
                   grid_export, charge_trace, discharge_trace, result>>

\* entry of greedy_dispatch: the alignment test raises
Misaligned ==
    /\ pc = "call"
    /\ ~IndexEquals(pv.index, price.index)
    /\ pc' = "ValueError"
    /\ UNCHANGED <<pv, price, cfg, discharge_threshold, soc, soc_trace,
                   batt_flow, grid_export, charge_trace, discharge_trace,
                   result>>

\* entry of greedy_dispatch: aligned, threshold and empty traces set up
Enter ==
    /\ pc = "call"
    /\ IndexEquals(pv.index, price.index)
    /\ discharge_threshold' = Threshold(price.values, cfg)
    /\ soc' = Zero
    /\ soc_trace' = <<>>
    /\ batt_flow' = <<>>
    /\ grid_export' = <<>>
    /\ pc' = "loop"
    /\ UNCHANGED <<pv, price, cfg, charge_trace, discharge_trace, result>>

\* one iteration of `for pv_kwh, p in zip(pv, price)`
Interval ==
    /\ pc = "loop"
    /\ Len(soc_trace) < Len(pv.values)
    /\ LET k == Len(soc_trace) + 1
           r == Step(soc, pv.values[k], price.values[k], cfg,
                     discharge_threshold)
       IN  /\ soc' = r.soc
           /\ batt_flow' = Append(batt_flow, r.batt_flow)
           /\ soc_trace' = Append(soc_trace, r.soc)
           /\ grid_export' = Append(grid_export, r.grid_export)
           /\ charge_trace' = Append(charge_trace, r.charge)
           /\ discharge_trace' = Append(discharge_trace, r.discharge)
    /\ UNCHANGED <<pv, price, cfg, pc, discharge_threshold, result>>

\* after the loop: the costs and the returned dict
Return ==
    /\ pc = "loop"
    /\ Len(soc_trace) = Len(pv.values)
    /\ result' = <<Summary(pv.values, price.values, grid_export)>>
    /\ pc' = "done"
    /\ UNCHANGED <<pv, price, cfg, discharge_threshold, soc, soc_trace,
                   batt_flow, grid_export, charge_trace, discharge_trace>>

Next == Construct \/ Misaligned \/ Enter \/ Interval \/ Return

Spec == Init /\ [][Next]_vars

(* ------------------- greedy_dispatch as one function ------------------- *)
\* the grid_export column of a whole pass over pv and price from interval k
RECURSIVE Exports(_, _, _, _)
Exports(k, s, c, thr) ==
    IF k > Len(pv.values) THEN <<>>
    ELSE LET r == Step(s, pv.values[k], price.values[k], c, thr)
         IN  <<r.grid_export>> \o Exports(k + 1, r.soc, c, thr)

\* the figures greedy_dispatch(pv, price, c) returns for aligned series
greedy_dispatch(c) ==
    Summary(pv.values, price.values,
            Exports(1, Zero, c, Threshold(price.values, c)))

(* ------------------------------ properties ----------------------------- *)
Constructed == pc # "new"
InPass == pc \in {"loop", "done"}
Intervals == 1..Len(soc_trace)
\* state of charge before interval k
SocBefore(k) == IF k = 1 THEN Zero ELSE soc_trace[k - 1]

\* C1: with capacity_kwh > 0 and non-negative generation, the state of
\* charge is 0 before the first interval and every recorded state of charge
\* lies in [0, capacity_kwh].
C1_SocBounds ==
    (InPass /\ RLt(Zero, cfg.capacity_kwh)) =>
        /\ soc_trace = <<>> => soc = Zero
        /\ RLe(Zero, soc) /\ RLe(soc, cfg.capacity_kwh)
        /\ \A k \in Intervals :
              RLe(Zero, soc_trace[k]) /\ RLe(soc_trace[k], cfg.capacity_kwh)

\* C1 witness: a finished pass in which the battery was full after one
\* interval and emptied by a lossy discharge in another.
C1_Witness ==
    /\ pc = "done"
    /\ RLt(Zero, cfg.capacity_kwh)
    /\ RLt(cfg.round_trip_eff, R(1)) /\ RLt(Zero, cfg.round_trip_eff)
    /\ \E k \in Intervals : soc_trace[k] = cfg.capacity_kwh
    /\ \E k \in Intervals :
          soc_trace[k] = Zero /\ RLt(Zero, discharge_trace[k])

\* C2: with a valid configuration and non-negative generation, every
\* recorded battery_flow satisfies |battery_flow| <= power_kw.
C2_FlowWithinPower ==
    (InPass /\ ValidCfg(cfg)) =>
        \A k \in Intervals : RLe(RAbs(batt_flow[k]), cfg.power_kw)

\* C2 witness: a valid configuration, an interval in which the battery both
\* charged and discharged, and an interval whose flow reached power_kw.
C2_Witness ==
    /\ pc = "done"
    /\ ValidCfg(cfg)
    /\ \E k \in Intervals :
          RLt(Zero, charge_trace[k]) /\ RLt(Zero, discharge_trace[k])
    /\ \E k \in Intervals : RAbs(batt_flow[k]) = cfg.power_kw

\* C3: once greedy_dispatch has been entered, it has raised the alignment
\* error exactly when the two indices differ, and then nothing was computed
\* and nothing is returned.
C3_AlignmentError ==
    pc \in {"loop", "done", "ValueError"} =>
        /\ pc = "ValueError" <=> pv.index # price.index
        /\ pc = "ValueError" =>
              /\ discharge_threshold = <<>>
              /\ soc_trace = <<>> /\ batt_flow = <<>> /\ grid_export = <<>>
              /\ result = <<>>

\* C3 witness: the error raised for two indices of the same length that
\* differ in exactly one timestamp.
C3_Witness ==
    /\ pc = "ValueError"
    /\ Len(pv.index) = Len(price.index)
    /\ Cardinality({k \in 1..Len(pv.index) : pv.index[k] # price.index[k]}) = 1

\* C4: the returned pounds_saved is max(cost_naive - cost_smart, 0) with
\* cost_naive the sum of generation * price and cost_smart the sum of
\* max(grid_export, 0) * price; so it is never negative.
C4_PoundsSaved ==
    pc = "done" =>
        LET n     == Len(pv.values)
            naive == RSum([k \in 1..n |-> RMul(pv.values[k], price.values[k])])
            smart == RSum([k \in 1..n |->
                        RMul(IF RLt(grid_export[k], Zero) THEN Zero
                             ELSE grid_export[k], price.values[k])])
            diff  == RSub(naive, smart)
        IN  /\ result[1].cost_naive = naive
            /\ result[1].cost_smart = smart
            /\ result[1].pounds_saved = IF RLt(diff, Zero) THEN Zero ELSE diff
            /\ RLe(Zero, result[1].pounds_saved)

\* C4 witness: a run whose raw saving is negative and is floored to 0.
C4_Witness ==
    /\ pc = "done"
    /\ RLt(result[1].cost_naive, result[1].cost_smart)
    /\ result[1].pounds_saved = Zero

\* C5: with a valid configuration, the returned pounds_saved is at least the
\* pounds_saved of the same call with any smaller capacity_kwh.
C5_CapacityMonotone ==
    (pc = "done" /\ ValidCfg(cfg)) =>
        \A c1 \in Capacities :
            RLe(c1, cfg.capacity_kwh) =>
                RLe(greedy_dispatch([cfg EXCEPT !.capacity_kwh = c1]).pounds_saved,
                    result[1].pounds_saved)

\* C6: when every price is the same, the threshold is that price, no
\* interval discharges and pounds_saved is 0.
C6_ConstantPrice ==
    (pc = "done" /\ ValidCfg(cfg)
        /\ \A k \in 1..Len(price.values) : price.values[k] = price.values[1]) =>
        /\ discharge_threshold = price.values[1]
        /\ \A k \in Intervals : discharge_trace[k] = Zero
        /\ result[1].pounds_saved = Zero

\* C7: a configuration with capacity_kwh <= 0, power_kw <= 0 or
\* round_trip_eff outside (0, 1] is never constructed, so greedy_dispatch
\* never runs with one.
C7_InvalidCfgRejected == Constructed => ValidCfg(cfg)

\* C8: the threshold is the median of the whole price series over
\* round_trip_eff throughout the pass, and each interval discharges
\* min(power_kw, soc after its charge) when its price is strictly above the
\* threshold and that soc is positive, and 0 otherwise; on the day of
\* constant generation 0.5 at the mock prices with the default
\* configuration only hours 16 to 19 discharge.
C8_DischargeRule ==
    InPass =>
        /\ RMul(discharge_threshold, cfg.round_trip_eff) = Median(price.values)
        /\ \A k \in Intervals :
              LET charged == RAdd(SocBefore(k), charge_trace[k])
                  above   == RLt(discharge_threshold, price.values[k])
              IN  /\ (above /\ RLt(Zero, charged)) =>
                        discharge_trace[k] =
                            (IF RLt(charged, cfg.power_kw) THEN charged
                             ELSE cfg.power_kw)
                  /\ ~(above /\ RLt(Zero, charged)) => discharge_trace[k] = Zero
                  /\ ~above => discharge_trace[k] = Zero
        /\ (pv = ConstantSun /\ price = MockDay /\ cfg = DefaultCfg) =>
              \A k \in Intervals :
                  discharge_trace[k] # Zero => (k - 1) \in 16..19

\* C8 witness: the finished day of constant generation with the default
\* configuration, discharging in each of the hours 16 to 19.
C8_Witness ==
    /\ pc = "done"
    /\ pv = ConstantSun /\ price = MockDay /\ cfg = DefaultCfg
    /\ \A h \in 16..19 : RLt(Zero, discharge_trace[h + 1])

\* C9: with a valid configuration, after any prefix of intervals the energy
\* discharged so far is at most round_trip_eff times the energy charged so
\* far.
C9_RoundTripLoss ==
    (InPass /\ ValidCfg(cfg)) =>
        RLe(RSum(discharge_trace),
            RMul(cfg.round_trip_eff, RSum(charge_trace)))

\* C10: with a valid configuration and non-negative generation, every
\* grid_export equals generation minus battery_flow and is >= 0, so the
\* clip in cost_smart changes nothing.
C10_ExportNonNegative ==
    (InPass /\ ValidCfg(cfg)) =>
        /\ \A k \in Intervals :
              /\ grid_export[k] = RSub(pv.values[k], batt_flow[k])
              /\ RLe(Zero, grid_export[k])
        /\ pc = "done" =>
              result[1].cost_smart =
                  RSum([k \in 1..Len(grid_export) |->
                            RMul(grid_export[k], price.values[k])])

\* C10 witness: a finished valid run that kept part of the generation in one
\* interval and exported a discharge in another.
C10_Witness ==
    /\ pc = "done"
    /\ ValidCfg(cfg)
    /\ \E k \in Intervals :
          RLt(Zero, charge_trace[k]) /\ RLt(grid_export[k], pv.values[k])
    /\ \E k \in Intervals :
          RLt(Zero, discharge_trace[k]) /\ RLt(pv.values[k], grid_export[k])

=============================================================================
